---------------------------- MODULE Spec2Model ----------------------------
(***************************************************************************)
(* The file filter-and-copy service of main.py: the handler of             *)
(* POST /filter-and-copy and the function filter_files it calls, over a    *)
(* small filesystem.                                                       *)
(*                                                                         *)
(* A string is a sequence of one-character strings, a path is a sequence   *)
(* of names (all paths are absolute; <<>> is the root), so that split,     *)
(* strip, lower, lstrip, join and basename are computed, not assumed.      *)
(***************************************************************************)
EXTENDS Integers, Sequences, FiniteSets, TLC

VARIABLES
    fs,              \* the filesystem: [dirs, files], and whether the process is
                     \* the superuser
    req,             \* the form fields of the request being handled
    pc,              \* position of the handler
    dest_folder,     \* main.py:95
    matching_files,  \* main.py:100
    copied_files,    \* main.py:114
    idx,             \* number of iterations of the loop of main.py:115 done
    resp,            \* the HTTP response
    attempts,        \* history: outcome of each iteration of the copy loop
    fs0,             \* history: the filesystem when the request arrived
    hist,            \* history: the previous request, its response and filesystems
    nreq             \* number of requests received

vars == <<fs, req, pc, dest_folder, matching_files, copied_files, idx, resp,
          attempts, fs0, hist, nreq>>

-----------------------------------------------------------------------------
(* Bounds *)

\* timestamps are 0..MaxTime
MaxTime == 2
\* requests handled in one behaviour
MaxRequests == 2
\* files in the initial filesystem
MaxFiles == 2

Times == 0..MaxTime
\* the clock: what a file created by a request gets as its ctime
Now == MaxTime

-----------------------------------------------------------------------------
(* Strings *)

S_a_txt == <<"a", ".", "t", "x", "t">>
S_A_TXT == <<"A", ".", "T", "X", "T">>
S_b_log == <<"b", ".", "l", "o", "g">>
S_a_log_txt == <<"a", ".", "l", "o", "g", ".", "t", "x", "t">>
S_txt == <<"t", "x", "t">>
S_a_dot == <<"a", ".">>
S_s == <<"s">>
S_d == <<"d">>
S_b == <<"b">>
S_out == <<"o", "u", "t">>
S_nosuch == <<"n", "o">>
S_dotdot == <<".", ".">>

\* str.lower() on the characters in use
LowerChar(c) ==
    CASE c = "A" -> "a"
      [] c = "T" -> "t"
      [] c = "X" -> "x"
      [] c = "L" -> "l"
      [] OTHER -> c

\* str.lower()
Lower(s) == [k \in 1..Len(s) |-> LowerChar(s[k])]

\* str.split(sep): the segments between the occurrences of sep; the
\* segments of "" are <<"">>
RECURSIVE SplitAcc(_, _, _, _)
SplitAcc(s, sep, k, cur) ==
    IF k > Len(s) THEN <<cur>>
    ELSE IF s[k] = sep THEN <<cur>> \o SplitAcc(s, sep, k + 1, <<>>)
    ELSE SplitAcc(s, sep, k + 1, Append(cur, s[k]))

Split(s, sep) == SplitAcc(s, sep, 1, <<>>)

\* str.lstrip(chars) for a single character
RECURSIVE LStrip(_, _)
LStrip(s, c) ==
    IF s # <<>> /\ Head(s) = c THEN LStrip(Tail(s), c) ELSE s

RECURSIVE RStrip(_, _)
RStrip(s, c) ==
    IF s # <<>> /\ s[Len(s)] = c THEN RStrip(SubSeq(s, 1, Len(s) - 1), c) ELSE s

\* str.strip(): whitespace off both ends
Strip(s) == RStrip(LStrip(s, " "), " ")

\* x in list
InList(x, list) == \E k \in 1..Len(list) : list[k] = x

-----------------------------------------------------------------------------
(* Paths and the filesystem *)

\* normalisation of an absolute path: ".." goes to the parent, the root
\* is its own parent
RECURSIVE Resolve(_)
Resolve(p) ==
    IF p = <<>> THEN <<>>
    ELSE LET q == Resolve(SubSeq(p, 1, Len(p) - 1))
             c == p[Len(p)]
         IN  IF c = S_dotdot
             THEN (IF q = <<>> THEN <<>> ELSE SubSeq(q, 1, Len(q) - 1))
             ELSE Append(q, c)

\* os.path.join(a, b): an absolute b replaces a
Join(a, b) == IF b.abs THEN b.comps ELSE a \o b.comps

Rel(comps) == [abs |-> FALSE, comps |-> comps]
Abs(comps) == [abs |-> TRUE, comps |-> comps]

\* os.path.basename
Basename(p) == p[Len(p)]

\* os.path.dirname
Dirname(p) == SubSeq(p, 1, Len(p) - 1)

IsPrefix(a, b) == Len(a) <= Len(b) /\ SubSeq(b, 1, Len(a)) = a

\* os.path.isdir
IsDir(f, p) == Resolve(p) \in f.dirs

IsFile(f, p) == Resolve(p) \in DOMAIN f.files

-----------------------------------------------------------------------------
(* Library calls, by what they do on this filesystem *)

\* the order in which a directory is listed (os.scandir): fixed for a
\* fixed filesystem, not lexical
NameOrder ==
    << S_a_txt, S_txt, S_b_log, S_A_TXT, S_a_dot, S_a_log_txt,
       S_d, S_out, S_s, S_b, S_nosuch >>

\* the non-directory entries of the directory p, in listing order
ListFiles(f, p) ==
    SelectSeq(NameOrder, LAMBDA n : Append(Resolve(p), n) \in DOMAIN f.files)

\* the subdirectories of the directory p, in listing order
ListDirs(f, p) ==
    SelectSeq(NameOrder, LAMBDA n : Append(Resolve(p), n) \in f.dirs)

\* datetime.strptime(ts, "%Y-%m-%d %H:%M:%S"): a timestamp string is its
\* separator and the instant it names; only the dashed form parses
StrpTime(ts) ==
    IF ts.sep = "-" THEN [ok |-> TRUE, dt |-> ts.t] ELSE [ok |-> FALSE]

Stamp(t) == [sep |-> "-", t |-> t]
BadStamp(t) == [sep |-> "/", t |-> t]

\* os.path.getctime / os.path.getmtime
GetCTime(f, p) == f.files[Resolve(p)].ctime
GetMTime(f, p) == f.files[Resolve(p)].mtime

\* os.makedirs(p, exist_ok=True): every missing directory on the way to p
\* is made; an existing file on the way is an OSError, which leaves what
\* was made before it
RECURSIVE MakeDirs(_, _, _)
MakeDirs(f, p, k) ==
    IF k > Len(p) THEN [ok |-> TRUE, fs |-> f]
    ELSE LET d == Resolve(SubSeq(p, 1, k))
         IN  IF d \in DOMAIN f.files THEN [ok |-> FALSE, fs |-> f]
             ELSE MakeDirs([f EXCEPT !.dirs = @ \cup {d}], p, k + 1)

\* shutil.copy2 that keeps a file already at dst
Copy2_KeepExisting(f, src, dst) ==
    LET s == Resolve(src)
        d == Resolve(dst)
    IN  IF s \notin DOMAIN f.files \/ s = d THEN [ok |-> FALSE, fs |-> f]
        ELSE IF d \in DOMAIN f.files THEN [ok |-> TRUE, fs |-> f]
        ELSE [ok |-> TRUE,
              fs |-> [f EXCEPT !.files =
                        [q \in DOMAIN f.files \cup {d} |->
                            IF q = d THEN [f.files[s] EXCEPT !.ctime = Now]
                            ELSE f.files[q]]]]

\* shutil.copy2(src, dst): copyfile, then copystat. It raises when src and
\* dst are the same file, when src is missing, when the directory of dst is
\* missing and when dst exists and the process may not write it (a read-only
\* file, unless the process is the superuser); otherwise dst holds the
\* content, the mtime and the permission bits of src, and its ctime is the
\* time of the copy
Copy2(f, src, dst) ==
    LET s == Resolve(src)
        d == IF IsDir(f, dst) THEN Append(Resolve(dst), Basename(src))
             ELSE Resolve(dst)
    IN  IF s \notin DOMAIN f.files THEN [ok |-> FALSE, fs |-> f]
        ELSE IF s = d THEN [ok |-> FALSE, fs |-> f]
        ELSE IF d \in f.dirs \/ Dirname(d) \notin f.dirs THEN [ok |-> FALSE, fs |-> f]
        ELSE IF d \in DOMAIN f.files /\ f.files[d].ro /\ ~f.superuser
             THEN [ok |-> FALSE, fs |-> f]
        ELSE [ok |-> TRUE,
              fs |-> [f EXCEPT !.files =
                        [q \in DOMAIN f.files \cup {d} |->
                            IF q = d
                            THEN [mtime |-> f.files[s].mtime,
                                  ctime |-> Now,
                                  ro |-> f.files[s].ro,
                                  content |-> f.files[s].content]
                            ELSE f.files[q]]]]

-----------------------------------------------------------------------------
(* filter_files, main.py:24-63 *)

\* main.py:39 without .lower()
NormalizeFormats_NoLower(file_formats) ==
    LET parts == Split(file_formats, ",")
        kept == SelectSeq(parts, LAMBDA fmt : Strip(fmt) # <<>>)
    IN  [k \in 1..Len(kept) |-> LStrip(Strip(kept[k]), ".")]

\* main.py:39
NormalizeFormats(file_formats) ==
    LET parts == Split(file_formats, ",")
        kept == SelectSeq(parts, LAMBDA fmt : Strip(fmt) # <<>>)
    IN  [k \in 1..Len(kept) |-> LStrip(Lower(Strip(kept[k])), ".")]

\* main.py:52
ExtOf(filename) ==
    LET parts == Split(filename, ".") IN Lower(parts[Len(parts)])

\* main.py:60 with the upper bound exclusive
InRange_Exclusive(from_dt, file_time, to_dt) == from_dt <= file_time /\ file_time < to_dt

\* main.py:60
InRange(from_dt, file_time, to_dt) == from_dt <= file_time /\ file_time <= to_dt

\* main.py:57
FileTime(f, file_path, use_created_time) ==
    IF use_created_time THEN GetCTime(f, file_path) ELSE GetMTime(f, file_path)

\* main.py:51-61, for the files of one directory
MatchesIn(f, root, formats, from_dt, to_dt, use_created_time) ==
    LET files == ListFiles(f, root)
        paths == [k \in 1..Len(files) |-> Append(root, files[k])]
    IN  SelectSeq(paths, LAMBDA file_path :
            /\ InList(ExtOf(Basename(file_path)), formats)
            /\ InRange(from_dt, FileTime(f, file_path, use_created_time), to_dt))

\* main.py:50-61: os.walk visits a directory, then each of its
\* subdirectories in turn
RECURSIVE Walk(_, _, _, _, _, _)
RECURSIVE WalkDirs(_, _, _, _, _, _, _)
Walk(f, root, formats, from_dt, to_dt, use_created_time) ==
    MatchesIn(f, root, formats, from_dt, to_dt, use_created_time)
    \o WalkDirs(f, root, ListDirs(f, root), formats, from_dt, to_dt, use_created_time)

WalkDirs(f, root, subdirs, formats, from_dt, to_dt, use_created_time) ==
    IF subdirs = <<>> THEN <<>>
    ELSE Walk(f, Append(root, Head(subdirs)), formats, from_dt, to_dt, use_created_time)
         \o WalkDirs(f, root, Tail(subdirs), formats, from_dt, to_dt, use_created_time)

filter_files(f, folder_path, from_timestamp, to_timestamp, file_formats, use_created_time) ==
    LET from_p == StrpTime(from_timestamp)
        to_p == StrpTime(to_timestamp)
        formats == NormalizeFormats(file_formats)
    IN  IF ~from_p.ok \/ ~to_p.ok
        THEN [ok |-> FALSE, detail |-> "InvalidTimestamp"]
        ELSE IF formats = <<>>
        THEN [ok |-> FALSE, detail |-> "EmptyFormatList"]
        ELSE [ok |-> TRUE,
              files |-> Walk(f, folder_path, formats, from_p.dt, to_p.dt, use_created_time)]

-----------------------------------------------------------------------------
(* The handler of POST /filter-and-copy, main.py:70-131 *)

NoReq == [source_folder |-> <<>>, from_timestamp |-> Stamp(0), to_timestamp |-> Stamp(0),
          file_formats |-> <<>>, use_created_time |-> FALSE,
          dest_folder_base |-> <<>>, dest_folder_name |-> Rel(<<>>)]
NoResp == [status |-> 0]
NoHist == [valid |-> FALSE]

HttpError(code, detail) == [status |-> code, detail |-> detail]

\* a request arrives
Receive(r) ==
    /\ req' = r
    /\ pc' = "validate_source"
    /\ dest_folder' = <<>>
    /\ matching_files' = <<>>
    /\ copied_files' = <<>>
    /\ idx' = 0
    /\ resp' = NoResp
    /\ attempts' = <<>>
    /\ fs0' = fs
    /\ nreq' = nreq + 1
    /\ UNCHANGED fs

Submit(requests) ==
    /\ pc = "idle"
    /\ nreq < MaxRequests
    /\ \E r \in requests : Receive(r)
    /\ UNCHANGED hist

\* the client sends the request it sent before once more
Resubmit ==
    /\ pc = "done"
    /\ nreq < MaxRequests
    /\ hist' = [valid |-> TRUE, req |-> req, resp |-> resp, fs0 |-> fs0, fs |-> fs]
    /\ Receive(req)

\* main.py:80-85
ValidateSource ==
    /\ pc = "validate_source"
    /\ IF ~IsDir(fs, req.source_folder)
       THEN /\ resp' = HttpError(400, "SourceNotFound")
            /\ pc' = "done"
       ELSE /\ pc' = "validate_dest_base"
            /\ UNCHANGED resp
    /\ UNCHANGED <<fs, req, dest_folder, matching_files, copied_files, idx,
                   attempts, fs0, hist, nreq>>

\* main.py:87-92
ValidateDestBase ==
    /\ pc = "validate_dest_base"
    /\ IF ~IsDir(fs, req.dest_folder_base)
       THEN /\ resp' = HttpError(400, "DestinationBaseNotFound")
            /\ pc' = "done"
       ELSE /\ pc' = "create_dest"
            /\ UNCHANGED resp
    /\ UNCHANGED <<fs, req, dest_folder, matching_files, copied_files, idx,
                   attempts, fs0, hist, nreq>>

\* main.py:94-96; an OSError of makedirs is not caught: HTTP 500
CreateDestFolder ==
    /\ pc = "create_dest"
    /\ LET dest == Join(req.dest_folder_base, req.dest_folder_name)
           made == MakeDirs(fs, dest, 1)
       IN  /\ dest_folder' = dest
           /\ fs' = made.fs
           /\ IF made.ok
              THEN /\ pc' = "filter"
                   /\ UNCHANGED resp
              ELSE /\ pc' = "done"
                   /\ resp' = HttpError(500, "OSError")
    /\ UNCHANGED <<req, matching_files, copied_files, idx, attempts, fs0, hist, nreq>>

\* main.py:98-111
FilterFiles ==
    /\ pc = "filter"
    /\ LET got == filter_files(fs, req.source_folder, req.from_timestamp,
                               req.to_timestamp, req.file_formats, req.use_created_time)
       IN  IF got.ok
           THEN /\ matching_files' = got.files
                /\ pc' = "copy"
                /\ UNCHANGED resp
           ELSE /\ resp' = HttpError(400, got.detail)
                /\ pc' = "done"
                /\ UNCHANGED matching_files
    /\ UNCHANGED <<fs, req, dest_folder, copied_files, idx, attempts, fs0, hist, nreq>>

\* main.py:115-123 with the append of line 120 moved out of the try block
CopyFile_AppendAlways ==
    /\ pc = "copy"
    /\ idx < Len(matching_files)
    /\ LET src == matching_files[idx + 1]
           dest_path == Append(dest_folder, Basename(src))
           done == Copy2(fs, src, dest_path)
       IN  /\ fs' = done.fs
           /\ copied_files' = Append(copied_files, dest_path)
           /\ attempts' = Append(attempts, done.ok)
    /\ idx' = idx + 1
    /\ UNCHANGED <<req, pc, dest_folder, matching_files, resp, fs0, hist, nreq>>

\* main.py:115-123, one iteration of the loop
CopyFile ==
    /\ pc = "copy"
    /\ idx < Len(matching_files)
    /\ LET src == matching_files[idx + 1]
           filename == Basename(src)
           dest_path == Append(dest_folder, filename)
           done == Copy2(fs, src, dest_path)
       IN  /\ fs' = done.fs
           /\ copied_files' = IF done.ok THEN Append(copied_files, dest_path)
                              ELSE copied_files
           /\ attempts' = Append(attempts, done.ok)
    /\ idx' = idx + 1
    /\ UNCHANGED <<req, pc, dest_folder, matching_files, resp, fs0, hist, nreq>>

\* main.py:125-131
Return ==
    /\ pc = "copy"
    /\ idx = Len(matching_files)
    /\ resp' = [status |-> 200,
                count |-> Len(copied_files),
                destination_folder |-> dest_folder,
                copied_files |-> copied_files,
                skipped_files |-> Len(matching_files) - Len(copied_files)]
    /\ pc' = "done"
    /\ UNCHANGED <<fs, req, dest_folder, matching_files, copied_files, idx,
                   attempts, fs0, hist, nreq>>

\* the environment: a matched file that is still to be copied and lies
\* outside the destination folder is deleted by somebody else
EnvDelete ==
    /\ pc = "copy"
    /\ \E k \in (idx + 1)..Len(matching_files) :
          LET p == Resolve(matching_files[k])
          IN  /\ p \in DOMAIN fs.files
              /\ ~IsPrefix(Resolve(dest_folder), p)
              /\ fs' = [fs EXCEPT !.files = [q \in DOMAIN fs.files \ {p} |-> fs.files[q]]]
    /\ UNCHANGED <<req, pc, dest_folder, matching_files, copied_files, idx, resp,
                   attempts, fs0, hist, nreq>>

-----------------------------------------------------------------------------
(* Initial filesystems and requests *)

P_s == <<S_s>>
P_sd == <<S_s, S_d>>
P_sdd == <<S_s, S_d, S_d>>
P_b == <<S_b>>
P_no == <<S_nosuch>>

InitDirs == {<<>>, P_s, P_sd, P_sdd, P_b}

\* a file's content is named after the place where it was first stored
FileSystem(S, a, su) ==
    [dirs |-> InitDirs,
     superuser |-> su,
     files |-> [p \in S |-> [mtime |-> a[p].mtime, ctime |-> a[p].ctime,
                             ro |-> a[p].ro, content |-> p]]]

SubsetsUpTo(S, n) == {T \in SUBSET S : Cardinality(T) <= n}

InitRest ==
    /\ req = NoReq
    /\ pc = "idle"
    /\ dest_folder = <<>>
    /\ matching_files = <<>>
    /\ copied_files = <<>>
    /\ idx = 0
    /\ resp = NoResp
    /\ attempts = <<>>
    /\ fs0 = fs
    /\ hist = NoHist
    /\ nreq = 0

\* the copy flow: few names, every destination
FlowSlots == {Append(P_s, S_a_txt), Append(P_sd, S_a_txt), Append(P_s, S_b_log)}
FlowAttrs == [mtime : {1}, ctime : {1}, ro : BOOLEAN]

FlowRequests ==
    [source_folder : {P_s, P_no},
     from_timestamp : {Stamp(0), BadStamp(0)},
     to_timestamp : {Stamp(MaxTime)},
     file_formats : {S_txt, <<>>},
     use_created_time : {FALSE},
     dest_folder_base : {P_b, P_s, P_no},
     dest_folder_name : {Rel(<<S_out>>), Rel(<<>>), Rel(<<S_dotdot>>), Rel(<<S_a_txt>>),
                         Abs(P_sd)}]

Init ==
    /\ \E S \in SUBSET FlowSlots : \E a \in [S -> FlowAttrs] : \E su \in BOOLEAN :
          fs = FileSystem(S, a, su)
    /\ InitRest

Next ==
    \/ Submit(FlowRequests)
    \/ Resubmit
    \/ ValidateSource
    \/ ValidateDestBase
    \/ CreateDestFolder
    \/ FilterFiles
    \/ CopyFile
    \/ EnvDelete
    \/ Return

Spec == Init /\ [][Next]_vars

-----------------------------------------------------------------------------
(* The filter: every kind of name, format list and time range *)

S_F_txt == <<"t", "x", "t">>
S_F_TXT == <<"T", "X", "T">>
S_F_dot_txt == <<".", "t", "x", "t">>
S_F_sp_txt == <<" ", "t", "x", "t", " ">>
S_F_TXT_log == <<".", "T", "X", "T", ",", " ", "l", "o", "g">>
S_F_txt_log == <<"t", "x", "t", ",", "l", "o", "g">>
S_F_empty == <<>>
S_F_blank == <<" ", ",", " ">>
S_F_dot == <<".">>
S_F_dots == <<".", ",", " ", ".", ".">>

ValidFormats == {S_F_txt, S_F_TXT, S_F_dot_txt, S_F_sp_txt, S_F_TXT_log, S_F_txt_log}
DotFormats == {S_F_dot, S_F_dots}
BlankFormats == {S_F_empty, S_F_blank}

FilterSlots ==
    {Append(P_s, n) : n \in {S_a_txt, S_A_TXT, S_txt, S_b_log, S_a_dot, S_a_log_txt}}
    \cup {Append(P_sdd, S_a_txt), Append(P_b, S_a_txt)}
FilterAttrs == [mtime : {1}, ctime : {1, Now}, ro : {FALSE}]

Stamps == {Stamp(t) : t \in Times} \cup {BadStamp(0)}

FilterRequests ==
    [source_folder : {P_s},
     from_timestamp : Stamps,
     to_timestamp : Stamps,
     file_formats : {S_F_txt, S_F_TXT_log},
     use_created_time : BOOLEAN,
     dest_folder_base : {P_b},
     dest_folder_name : {Rel(<<S_out>>)}]
    \cup
    [source_folder : {P_s, P_sd},
     from_timestamp : {Stamp(0)},
     to_timestamp : {Stamp(MaxTime)},
     file_formats : ValidFormats \cup DotFormats \cup BlankFormats,
     use_created_time : {FALSE},
     dest_folder_base : {P_b},
     dest_folder_name : {Rel(<<S_out>>)}]

InitFilter ==
    /\ \E S \in SubsetsUpTo(FilterSlots, MaxFiles) : \E a \in [S -> FilterAttrs] :
          fs = FileSystem(S, a, FALSE)
    /\ InitRest

NextFilter ==
    \/ Submit(FilterRequests)
    \/ ValidateSource
    \/ ValidateDestBase
    \/ CreateDestFolder
    \/ FilterFiles
    \/ CopyFile
    \/ Return

SpecFilter == InitFilter /\ [][NextFilter]_vars

-----------------------------------------------------------------------------
(* Vocabulary of the properties *)

Range(seq) == {seq[k] : k \in 1..Len(seq)}

\* the request got past the two directory checks and makedirs
Filtered == pc = "copy" \/ (pc = "done" /\ resp.status = 200)

TimestampsParse == req.from_timestamp.sep = "-" /\ req.to_timestamp.sep = "-"

\* the substring after the last "." of a name; the whole name when it has none
AfterLastDot(name) ==
    LET dots == {k \in 1..Len(name) : name[k] = "."}
        last == IF dots = {} THEN 0 ELSE CHOOSE k \in dots : \A j \in dots : j <= k
    IN  SubSeq(name, last + 1, Len(name))

HasDot(name) == \E k \in 1..Len(name) : name[k] = "."

ProperPrefix(a, b) == IsPrefix(a, b) /\ Len(a) < Len(b)

\* the files at any depth under the directory src
Under(f, src) == {p \in DOMAIN f.files : IsPrefix(Resolve(src), p)}

ChosenTime(f, p) == IF req.use_created_time THEN f.files[p].ctime ELSE f.files[p].mtime

\* the files the specification says a filter call returns
ExpectedMatches(f) ==
    {p \in Under(f, req.source_folder) :
        /\ Lower(AfterLastDot(Basename(p))) \in Range(NormalizeFormats(req.file_formats))
        /\ req.from_timestamp.t <= ChosenTime(f, p)
        /\ ChosenTime(f, p) <= req.to_timestamp.t}

-----------------------------------------------------------------------------
(* C1 *)

\* C1: a request that ends in HTTP 400 has left the filesystem as it was
\* when the request arrived; in particular the destination folder has not
\* been created.
C1_ValidationBeforeEffects ==
    (pc = "done" /\ resp.status = 400) => fs = fs0

-----------------------------------------------------------------------------
(* C2 *)

\* C2: with parseable timestamps and a non-empty extension set the filter
\* raises nothing and returns, each once, exactly the files at any depth
\* under the source folder whose extension is in the set and whose chosen
\* timestamp lies in [fromTime, toTime], both ends included; an inverted
\* range gives no match.
C2_FilterExact ==
    ( /\ pc \in {"copy", "done"}
      /\ IsDir(fs0, req.source_folder) /\ IsDir(fs0, req.dest_folder_base)
      /\ TimestampsParse
      /\ NormalizeFormats(req.file_formats) # <<>> )
    => /\ Filtered
       /\ Range(matching_files) = ExpectedMatches(fs0)
       /\ Len(matching_files) = Cardinality(ExpectedMatches(fs0))
       /\ (req.from_timestamp.t > req.to_timestamp.t => matching_files = <<>>)

\* two files are returned, one of them from a subdirectory of a subdirectory
\* and with its time equal to toTime
C2_Witness ==
    /\ pc = "copy"
    /\ Len(matching_files) = 2
    /\ \E k \in 1..Len(matching_files) :
          /\ Len(matching_files[k]) > Len(req.source_folder) + 2
          /\ ChosenTime(fs, matching_files[k]) = req.to_timestamp.t
          /\ req.from_timestamp.t < req.to_timestamp.t

-----------------------------------------------------------------------------
(* C3 *)

\* no entry of the comma-separated list has anything left after trimming,
\* lowercasing and stripping its leading dots
NoExtensionRemains(file_formats) ==
    \A e \in Range(Split(file_formats, ",")) : LStrip(Lower(Strip(e)), ".") = <<>>

\* C3: a format list of which no extension remains is refused with
\* EmptyFormatList, also when its entries are made of dots only, and the set
\* used for matching never holds the empty string.
C3_EmptyFormatList ==
    /\ ( /\ pc = "done"
         /\ IsDir(fs0, req.source_folder) /\ IsDir(fs0, req.dest_folder_base)
         /\ TimestampsParse
         /\ NoExtensionRemains(req.file_formats) )
       => (resp.status = 400 /\ resp.detail = "EmptyFormatList")
    /\ Filtered => <<>> \notin Range(NormalizeFormats(req.file_formats))

-----------------------------------------------------------------------------
(* C4 *)

\* C4: a file whose name has no "." is never in the match list.
C4_NoDotNeverMatched ==
    \A k \in 1..Len(matching_files) : HasDot(Basename(matching_files[k]))

-----------------------------------------------------------------------------
(* C5 *)

\* format lists that differ only by case, surrounding whitespace or a
\* leading dot of their entries
FormatClasses ==
    { {S_F_txt, S_F_TXT, S_F_dot_txt, S_F_sp_txt}, {S_F_TXT_log, S_F_txt_log} }

MatchesFor(file_formats) ==
    filter_files(fs, req.source_folder, req.from_timestamp, req.to_timestamp,
                 file_formats, req.use_created_time)

\* C5: the match list of a request is the one every format list of the same
\* class gives ("TXT", ".txt", "txt", " txt "), and of two files "A.TXT" and
\* "a.txt" with the same timestamp either both are matched or neither is.
C5_CaseAndDotInsensitive ==
    pc = "copy" =>
        /\ \A class \in FormatClasses :
              req.file_formats \in class =>
                  \A g \in class :
                      MatchesFor(g).ok /\ MatchesFor(g).files = matching_files
        /\ \A p \in DOMAIN fs0.files, q \in DOMAIN fs0.files :
              ( /\ Dirname(p) = Dirname(q)
                /\ Basename(p) = S_A_TXT /\ Basename(q) = S_a_txt
                /\ ChosenTime(fs0, p) = ChosenTime(fs0, q) )
              => (p \in Range(matching_files) <=> q \in Range(matching_files))

\* "TXT" was asked for and both A.TXT and a.txt are matched
C5_Witness ==
    /\ pc = "copy"
    /\ idx = 0
    /\ req.file_formats = S_F_TXT
    /\ Append(req.source_folder, S_A_TXT) \in Range(matching_files)
    /\ Append(req.source_folder, S_a_txt) \in Range(matching_files)

-----------------------------------------------------------------------------
(* C6 *)

\* the destination paths of the iterations that copied, in order
SuccessDests ==
    LET ok == SelectSeq([k \in 1..Len(attempts) |-> k], LAMBDA k : attempts[k])
    IN  [j \in 1..Len(ok) |-> Append(dest_folder, Basename(matching_files[ok[j]]))]

Failures == {k \in 1..Len(attempts) : ~attempts[k]}

C6_Response ==
    (pc = "done" /\ resp.status = 200) =>
        /\ Len(attempts) = Len(matching_files)
        /\ resp.copied_files = SuccessDests
        /\ resp.count = Len(resp.copied_files)
        /\ resp.skipped_files = Cardinality(Failures)
        /\ resp.count + resp.skipped_files = Len(matching_files)
        /\ \A k \in 1..Len(attempts) :
              attempts[k] => IsFile(fs, Append(dest_folder, Basename(matching_files[k])))

\* C6: once filtering has succeeded the request ends with HTTP 200 whatever
\* the copies do; the files whose copy failed are left out of copied_files
\* and counted one each in skipped_files, the others are copied, and
\* count = len(copied_files), count + skipped_files = number of matches.
C6_BatchNeverAborts ==
    /\ []C6_Response
    /\ [][pc = "copy" => (pc' = "copy" \/ (pc' = "done" /\ resp'.status = 200))]_vars

\* a request ended in which one copy failed and a later one succeeded
C6_Witness ==
    /\ pc = "done"
    /\ resp.status = 200
    /\ resp.skipped_files = 1
    /\ resp.count = 1
    /\ attempts = <<FALSE, TRUE>>

-----------------------------------------------------------------------------
(* C7 *)

DestPath(k) == Append(dest_folder, Basename(matching_files[k]))

\* the last iteration, in match order, that copied a file of this base name
LastCopied(b) ==
    LET ks == {k \in 1..Len(attempts) : attempts[k] /\ Basename(matching_files[k]) = b}
    IN  CHOOSE k \in ks : \A j \in ks : j <= k

CopiedNames == {Basename(matching_files[k]) : k \in {j \in 1..Len(attempts) : attempts[j]}}

\* the files directly in the destination folder
DestFiles(f, dest) == {p \in DOMAIN f.files : Dirname(p) = Resolve(dest)}

\* C7: files land in the destination folder under their base name; when
\* several matched files share a base name the destination file holds the
\* content of the last of them whose copy succeeded, and every successful
\* copy is listed and counted.
C7_LastWriterWins ==
    (pc = "done" /\ resp.status = 200) =>
        /\ \A b \in CopiedNames :
              LET k == LastCopied(b)
                  d == Resolve(Append(dest_folder, b))
              IN  /\ d \in DestFiles(fs, dest_folder)
                  /\ fs.files[d].content = fs0.files[Resolve(matching_files[k])].content
        /\ resp.count = Cardinality({k \in 1..Len(attempts) : attempts[k]})
        /\ \A k \in 1..Len(attempts) : attempts[k] => DestPath(k) \in Range(resp.copied_files)

\* two files of one base name were both copied: count is 2, the destination
\* folder holds one file, with the content of the second
C7_Witness ==
    /\ pc = "done"
    /\ resp.status = 200
    /\ resp.count = 2
    /\ attempts = <<TRUE, TRUE>>
    /\ Basename(matching_files[1]) = Basename(matching_files[2])
    /\ Cardinality(DestFiles(fs, dest_folder)) = 1
    /\ fs.files[Resolve(DestPath(2))].content = Resolve(matching_files[2])

-----------------------------------------------------------------------------
(* C8 *)

SourceTree(f) == [p \in Under(f, req.source_folder) |-> f.files[p]]

DestContents(f) == [p \in DestFiles(f, dest_folder) |-> f.files[p].content]

\* C8: the same valid request sent twice, its destination folder below
\* dest_folder_base and outside the source tree, the source tree unchanged:
\* the second answer is the first one and the destination folder holds the
\* same.
C8_Idempotent ==
    ( /\ pc = "done"
      /\ hist.valid
      /\ hist.resp.status = 200
      /\ ProperPrefix(Resolve(req.dest_folder_base), Resolve(dest_folder))
      /\ ~IsPrefix(Resolve(req.source_folder), Resolve(dest_folder))
      /\ SourceTree(hist.fs0) = SourceTree(fs0)
      /\ SourceTree(fs0) = SourceTree(fs) )
    => /\ resp = hist.resp
       /\ DestContents(fs) = DestContents(hist.fs)

-----------------------------------------------------------------------------
(* C9 *)

NoDuplicates(seq) == \A j \in 1..Len(seq), k \in 1..Len(seq) : seq[j] = seq[k] => j = k

\* C9: the match list is fixed before the first copy, each matched file is
\* tried once in match order, and no file the request writes into the
\* destination folder is one it has matched.
C9_WrittenNeverMatched ==
    pc \in {"copy", "done"} =>
        /\ Len(attempts) = idx
        /\ NoDuplicates(matching_files)
        /\ \A k \in 1..Len(attempts) :
              attempts[k] =>
                  Resolve(DestPath(k)) \notin {Resolve(m) : m \in Range(matching_files)}

-----------------------------------------------------------------------------
(* C10 *)

\* C10: the destination folder is below dest_folder_base, every copied file
\* is directly in it, and no file under the source folder is created or
\* overwritten by the request.
C10_WritesConfined ==
    Filtered =>
        /\ ProperPrefix(Resolve(req.dest_folder_base), Resolve(dest_folder))
        /\ \A k \in 1..Len(copied_files) : Dirname(copied_files[k]) = dest_folder
        /\ \A p \in Under(fs, req.source_folder) :
              p \in DOMAIN fs0.files /\ fs.files[p] = fs0.files[p]

=============================================================================
